---- MODULE Spec2Model ----
(***************************************************************************)
(* A model of the entry synchronizer (src/hugo/site.go) and of the         *)
(* deployment pipeline (src/aws/deployment.go).                            *)
(*                                                                         *)
(* Paths are sequences of components; "" is the empty sequence and "."     *)
(* is <<".">>.  File names are strings built from the slug.                *)
(* The strings that uploadFile works on are sequences of pieces: a piece   *)
(* is a separator, a dot, or a run of other characters.                    *)
(***************************************************************************)
EXTENDS Naturals, Sequences, FiniteSets, TLC

VARIABLES
    files,      \* the regular files on disk: path -> rendered content
    dirs,       \* the directories on disk
    registry,   \* the registry's entries: entryId -> path
    stored,     \* the entries in the registry's storage, as of the last flush
    last,       \* the last handler call: operation, payload, result, error
    svc,        \* the construction of the service: position, storage calls, error
    crashed,    \* the process has panicked
    calls,      \* the number of handler calls made so far
    run,        \* the handler call of each concurrent caller, step by step
    site,       \* the deployment's settings and disk: build path, tree, failing
                \* node, S3 prefix, path separator
    wpc,        \* the walk goroutine: "idle", "walk", "send", "closed", "panic"
    wpos,       \* the walk's position in its order of visits
    dpc,        \* Deploy: "start", "config", "range", "file", "upload", "returned"
    cur,        \* the path Deploy received last
    args,       \* the file name and the relative path passed to uploadFile
    dret,       \* what Deploy returned: "none" (not yet), "nil", or an error
    received,   \* the paths Deploy received from the walker, in order
    started,    \* the paths whose upload was started, in order
    bucket,     \* the objects in the bucket
    failAt      \* how many paths were received when a file's step failed; 0: none

syncVars == <<files, dirs, registry, stored, last, svc, calls, run>>

deployVars ==
    <<site, wpc, wpos, dpc, cur, args, dret, received, started, bucket, failAt>>

vars == <<files, dirs, registry, stored, last, svc, crashed, calls, run,
          site, wpc, wpos, dpc, cur, args, dret, received, started, bucket, failAt>>

-----------------------------------------------------------------------------
(* Bounds *)

\* a run makes at most MaxCalls calls of CreateEntry and UpdateEntry
MaxCalls == 3

\* a file name given to uploadFile has at most MaxNameLen pieces
MaxNameLen == 3

-----------------------------------------------------------------------------
(* path helpers (Go's package path) *)

EmptyPath == <<>>

DotPath == <<".">>

IsAbs(p) == Len(p) > 0 /\ p[1] = "/"

\* path.Join(dir, name): the cleaned join, so that "./x" is "x"
Join(dir, rest) ==
    IF dir = DotPath \/ dir = EmptyPath THEN rest ELSE dir \o rest

\* path.Dir: "." for the empty path and for a bare file name
Dir(p) == IF Len(p) <= 1 THEN DotPath ELSE SubSeq(p, 1, Len(p) - 1)

\* path.Base: "." for the empty path
Base(p) == IF p = EmptyPath THEN "." ELSE p[Len(p)]

-----------------------------------------------------------------------------
(* the site configuration *)

RootDir == <<"/", "site">>

CollectionTypes ==
    "post" :> [ArchetypePath |-> <<"archetypes", "post.html">>,
               OutputDir |-> <<"posts">>]

SingleTypes ==
    "draft" :> [ArchetypePath |-> <<"archetypes", "draft.html">>,
                OutputDir |-> <<"drafts">>]

\* the archetype files present under the site root
ArchetypeFiles == { RootDir \o <<"archetypes", "post.html">> }

Nil == [ArchetypePath |-> <<"nil">>, OutputDir |-> <<"nil">>]

-----------------------------------------------------------------------------
(* payloads *)

\* "post" is configured and has its archetype, "draft" is configured and its
\* archetype file is missing, "ghost" is in neither group of the configuration
ModelNames == {"post", "draft", "ghost"}

\* the integer identifiers of two entries (the properties relate at most two)
Ids == {1, 2}

\* titles, as sequences of characters
Titles == { <<"H", "i">>, <<"h", "i">>, <<"Y", "o">> }

MkPayload(model, id, title) ==
    [metadata |-> [model |-> model], entry |-> [id |-> id, Title |-> title]]

\* every payload of the model with an archetype; one payload of each other model
Payloads ==
    { MkPayload("post", id, title) : id \in Ids, title \in Titles }
    \cup { MkPayload(m, 1, <<"H", "i">>) : m \in ModelNames \ {"post"} }

\* the step of a handler at which the environment makes an operation fail
Faults ==
    {"none", "mkdir", "remove", "parse", "create", "execute", "registry", "flush"}

-----------------------------------------------------------------------------
(* midas.CreateSlug: lower-cases the title and joins its words with "-" *)

SlugChar(c) ==
    CASE c = "H" -> "h"
      [] c = "Y" -> "y"
      [] c = " " -> "-"
      [] OTHER -> c

RECURSIVE CreateSlug(_)
CreateSlug(title) ==
    IF title = <<>> THEN "" ELSE SlugChar(Head(title)) \o CreateSlug(Tail(title))

-----------------------------------------------------------------------------
(* the registry (midas.RegistryService) *)

RegReadEntry(reg, id) == IF id \in DOMAIN reg THEN reg[id] ELSE EmptyPath

RegCreateEntry(reg, id, p) ==
    [e \in DOMAIN reg \cup {id} |-> IF e = id THEN p ELSE reg[e]]

RegUpdateEntry(reg, id, p) ==
    [e \in DOMAIN reg \cup {id} |-> IF e = id THEN p ELSE reg[e]]

\* Flush: what the storage holds after a flush of the entries reg
RegFlush(reg) == reg

-----------------------------------------------------------------------------
(* SiteService helpers *)

EntryId(payload) ==
    payload.metadata.model \o "-" \o ToString(payload.entry.id)

getModel(model) ==
    IF model \in DOMAIN CollectionTypes
    THEN [m |-> CollectionTypes[model], single |-> FALSE]
    ELSE IF model \in DOMAIN SingleTypes
         THEN [m |-> SingleTypes[model], single |-> TRUE]
         ELSE [m |-> Nil, single |-> TRUE]

fileExistsIn(fs, ds, filename) ==
    filename \in DOMAIN fs \/ filename \in ds \/ filename \in ArchetypeFiles

fileExists(filename) == fileExistsIn(files, dirs, filename)

\* the absolute form of a configured path
AbsPath(p) == IF IsAbs(p) THEN p ELSE Join(RootDir, p)

\* what tmpl.Execute writes for an entry
Render(archetypePath, payload) ==
    [tmpl |-> archetypePath, Entry |-> payload.entry,
     owner |-> EntryId(payload), complete |-> TRUE]

\* what is on disk when tmpl.Execute fails after os.Create
Truncated(archetypePath, payload) ==
    [Render(archetypePath, payload) EXCEPT !.complete = FALSE]

WriteFile(fs, p, content) ==
    [q \in DOMAIN fs \cup {p} |-> IF q = p THEN content ELSE fs[q]]

RemoveFile(fs, p) == [q \in DOMAIN fs \ {p} |-> fs[q]]

OutputPath(outputDir, payload) ==
    Join(outputDir, <<CreateSlug(payload.entry.Title) \o ".html">>)

\* what a call leaves: the disk, the registry, the error and the path it returns,
\* the operation the environment made fail (hit), the path read from the
\* registry (old) and whether the output name was taken when it was checked
Outcome(fs, ds, reg, err, ret, hit, old, taken) ==
    [files |-> fs, dirs |-> ds, registry |-> reg, err |-> err, ret |-> ret,
     hit |-> hit, old |-> old, taken |-> taken]

\* a handler that returns no path with the error of the registry or of Flush
RegistryErrorPath_None(outputPath) == EmptyPath

\* "return outputPath, err": the path returned with the error of the registry
\* or of Flush
RegistryErrorPath(outputPath) == outputPath

\* a handler that does not check that the archetype exists
ArchetypeMissing_Never(archetypePath) == FALSE

\* "Check if archetype exists": the handler returns ErrSiteConfig if not
ArchetypeMissing(archetypePath) == ~fileExists(archetypePath)

-----------------------------------------------------------------------------
(* CreateEntry *)

\* a CreateEntry that does not check that the output filename is free
CreateNameTaken_Never(outputPath) == FALSE

CreateNameTaken(outputPath) == fileExists(outputPath)

CreateOutcome(payload, fault) ==
    LET modelName == payload.metadata.model
        model == getModel(modelName).m
        archetypePath == AbsPath(model.ArchetypePath)
        outputDir == AbsPath(model.OutputDir)
        outputPath == OutputPath(outputDir, payload)
        entryId == EntryId(payload)
        ds1 == dirs \cup {outputDir}
        taken == fileExists(outputPath)
        fsDone == WriteFile(files, outputPath, Render(archetypePath, payload))
        fsPart == WriteFile(files, outputPath, Truncated(archetypePath, payload))
    IN  IF model = Nil
        THEN Outcome(files, dirs, registry, "panic", EmptyPath, "none", EmptyPath, FALSE)
        ELSE IF ArchetypeMissing(archetypePath)
        THEN Outcome(files, dirs, registry, "config", EmptyPath, "none", EmptyPath, FALSE)
        ELSE IF ~fileExists(outputDir) /\ fault = "mkdir"
        THEN Outcome(files, dirs, registry, "io", EmptyPath, "mkdir", EmptyPath, FALSE)
        ELSE IF CreateNameTaken(outputPath)
        THEN Outcome(files, ds1, registry, "conflict", EmptyPath, "none", EmptyPath, TRUE)
        ELSE IF fault = "parse"
        THEN Outcome(files, ds1, registry, "io", EmptyPath, "parse", EmptyPath, taken)
        ELSE IF fault = "create"
        THEN Outcome(files, ds1, registry, "io", EmptyPath, "create", EmptyPath, taken)
        ELSE IF fault = "execute"
        THEN Outcome(fsPart, ds1, registry, "io", EmptyPath, "execute", EmptyPath, taken)
        ELSE IF fault = "registry"
        THEN Outcome(fsDone, ds1, registry, "registry", RegistryErrorPath(outputPath),
                     "registry", EmptyPath, taken)
        ELSE IF fault = "flush"
        THEN Outcome(fsDone, ds1, RegCreateEntry(registry, entryId, outputPath),
                     "registry", RegistryErrorPath(outputPath), "flush", EmptyPath, taken)
        ELSE Outcome(fsDone, ds1, RegCreateEntry(registry, entryId, outputPath),
                     "none", outputPath, "none", EmptyPath, taken)

-----------------------------------------------------------------------------
(* UpdateEntry *)

\* an UpdateEntry that does not check that the output filename is free
UpdateNameTaken_Never(outputPath, oldPath) == FALSE

\* an UpdateEntry that rejects the entry's own filename too
UpdateNameTaken_AnyName(outputPath, oldPath) == fileExists(outputPath)

UpdateNameTaken(outputPath, oldPath) ==
    fileExists(outputPath) /\ Base(outputPath) # Base(oldPath)

\* an UpdateEntry that leaves the old file
RemoveOld_Skip(oldPath, fault) == files

\* the files after "Remove old entry if exists"
RemoveOld(oldPath, fault) ==
    IF fileExists(oldPath) /\ fault # "remove" /\ oldPath \in DOMAIN files
    THEN RemoveFile(files, oldPath)
    ELSE files

UpdateOutcome(payload, fault) ==
    LET modelName == payload.metadata.model
        model == getModel(modelName).m
        archetypePath == AbsPath(model.ArchetypePath)
        entryId == EntryId(payload)
        oldPath == RegReadEntry(registry, entryId)
        outputDir == Dir(oldPath)
        outputPath == OutputPath(outputDir, payload)
        ds1 == dirs \cup {outputDir}
        taken == fileExists(outputPath)
        fs1 == RemoveOld(oldPath, fault)
        rmHit == IF fileExists(oldPath) /\ fault = "remove" THEN "remove" ELSE "none"
        fsDone == WriteFile(fs1, outputPath, Render(archetypePath, payload))
        fsPart == WriteFile(fs1, outputPath, Truncated(archetypePath, payload))
    IN  IF model = Nil
        THEN Outcome(files, dirs, registry, "panic", EmptyPath, "none", EmptyPath, FALSE)
        ELSE IF ArchetypeMissing(archetypePath)
        THEN Outcome(files, dirs, registry, "config", EmptyPath, "none", EmptyPath, FALSE)
        ELSE IF ~fileExists(outputDir) /\ fault = "mkdir"
        THEN Outcome(files, dirs, registry, "io", EmptyPath, "mkdir", EmptyPath, FALSE)
        ELSE IF UpdateNameTaken(outputPath, oldPath)
        THEN Outcome(files, ds1, registry, "conflict", EmptyPath, "none", oldPath, TRUE)
        ELSE IF fault = "parse"
        THEN Outcome(fs1, ds1, registry, "io", EmptyPath, "parse", oldPath, taken)
        ELSE IF fault = "create"
        THEN Outcome(fs1, ds1, registry, "io", EmptyPath, "create", oldPath, taken)
        ELSE IF fault = "execute"
        THEN Outcome(fsPart, ds1, registry, "io", EmptyPath, "execute", oldPath, taken)
        ELSE IF fault = "registry"
        THEN Outcome(fsDone, ds1, registry, "registry", RegistryErrorPath(outputPath),
                     "registry", oldPath, taken)
        ELSE IF fault = "flush"
        THEN Outcome(fsDone, ds1, RegUpdateEntry(registry, entryId, outputPath),
                     "registry", RegistryErrorPath(outputPath), "flush", oldPath, taken)
        ELSE Outcome(fsDone, ds1, RegUpdateEntry(registry, entryId, outputPath),
                     "none", outputPath, rmHit, oldPath, taken)

-----------------------------------------------------------------------------
(* the synchronizer as a state machine *)

NoCall == [op |-> "new", payload |-> MkPayload("post", 1, <<"H", "i">>),
           err |-> "none", ret |-> EmptyPath, hit |-> "none",
           old |-> EmptyPath, taken |-> FALSE, again |-> FALSE]

\* the operation op was called and returned without error (ok) or with one
Did(op, ok) == [op |-> op, ok |-> ok]

\* a service that NewSiteService has returned after opening its storage
Constructed ==
    [pc |-> "ready", type |-> "jsonfile", exists |-> TRUE, err |-> "none",
     ops |-> <<Did("OpenStorage", TRUE)>>]

\* the callers that may be in a handler at the same time
Procs == {1, 2}

\* a caller that is in no handler: its position, the handler and its payload,
\* the path read from the registry, the operations done so far, the results
NoRun == [pc |-> "idle", op |-> "none", payload |-> NoCall.payload,
          oldPath |-> EmptyPath, steps |-> <<>>, err |-> "none", ret |-> EmptyPath]

SyncInit ==
    /\ files = << >>
    /\ dirs = {RootDir, DotPath}
    /\ registry = << >>
    /\ stored = << >>
    /\ last = NoCall
    /\ svc = Constructed
    /\ crashed = FALSE
    /\ calls = 0
    /\ run = [p \in Procs |-> NoRun]

\* Flush is the last operation of a handler: it was called and succeeded
\* exactly when the call returns no error
Apply(op, payload, out) ==
    /\ files' = out.files
    /\ dirs' = out.dirs
    /\ registry' = out.registry
    /\ stored' = IF out.err = "none" THEN RegFlush(out.registry) ELSE stored
    /\ crashed' = (out.err = "panic")
    /\ calls' = calls + 1
    /\ run' = run
    /\ svc' = svc
    /\ last' = [op |-> op, payload |-> payload, err |-> out.err, ret |-> out.ret,
                hit |-> out.hit, old |-> out.old, taken |-> out.taken,
                again |-> (last.op = op /\ last.payload = payload
                           /\ last.err = "none")]

CreateEntry ==
    /\ ~crashed
    /\ calls < MaxCalls
    /\ \E payload \in Payloads, fault \in Faults :
       \E out \in {CreateOutcome(payload, fault)} :
           /\ out.hit = fault
           /\ Apply("create", payload, out)

UpdateEntry ==
    /\ ~crashed
    /\ calls < MaxCalls
    /\ \E payload \in Payloads, fault \in Faults :
       \E out \in {UpdateOutcome(payload, fault)} :
           /\ out.hit = fault
           /\ Apply("update", payload, out)

NoDeploy ==
    /\ site = [build |-> EmptyPath, tree |-> {}, errAt |-> <<"none">>,
               prefix |-> <<>>, sep |-> "/"]
    /\ wpc = "idle" /\ wpos = 1
    /\ dpc = "start" /\ cur = EmptyPath /\ dret = "none"
    /\ args = [file |-> <<>>, rel |-> <<>>]
    /\ received = <<>> /\ started = <<>> /\ bucket = {}
    /\ failAt = 0

Init == SyncInit /\ NoDeploy

Next ==
    \/ CreateEntry /\ UNCHANGED deployVars
    \/ UpdateEntry /\ UNCHANGED deployVars

Spec == Init /\ [][Next]_vars

-----------------------------------------------------------------------------
(* NewSiteService *)

\* the keys of midas.RegistryServices
KnownRegistryTypes == {"jsonfile"}

\* the values of config.Registry.Type that are modelled
RegistryTypes == {"jsonfile", "sqlite", ""}

\* OpenStorage: the entries read from an existing storage
RegOpenStorage(storage) == storage

\* CreateStorage: a fresh storage holds no entry
RegCreateStorage == << >>

\* the entries a storage may hold when the service is constructed
StoredPaths ==
    { RootDir \o <<"posts", "hi.html">>, RootDir \o <<"posts", "yo.html">>,
      <<"hi.html">> }

Storages ==
    UNION { [ids -> StoredPaths] : ids \in SUBSET {"post-1", "post-2"} }

\* NewSiteService is called: the registry type is looked up
NewSiteService ==
    /\ svc.pc = "new"
    /\ IF svc.type \notin KnownRegistryTypes
       THEN svc' = [svc EXCEPT !.pc = "failed", !.err = "config"]
       ELSE svc' = [svc EXCEPT !.pc = "open"]
    /\ UNCHANGED <<files, dirs, registry, stored, last, crashed, calls, run>>

\* an OpenStorage after which CreateStorage is called whatever it returned
OpenStorage_ThenCreate ==
    /\ svc.pc = "open"
    /\ \E ok \in BOOLEAN :
          IF ok /\ svc.exists
          THEN /\ registry' = RegOpenStorage(stored)
               /\ svc' = [svc EXCEPT !.pc = "create",
                                      !.ops = Append(@, Did("OpenStorage", TRUE))]
          ELSE /\ registry' = registry
               /\ svc' = [svc EXCEPT !.pc = "create",
                                      !.ops = Append(@, Did("OpenStorage", FALSE))]
    /\ UNCHANGED <<files, dirs, stored, last, crashed, calls, run>>

\* registry.OpenStorage: fails when there is no storage, or for another reason
OpenStorage ==
    /\ svc.pc = "open"
    /\ \E ok \in BOOLEAN :
          IF ok /\ svc.exists
          THEN /\ registry' = RegOpenStorage(stored)
               /\ svc' = [svc EXCEPT !.pc = "ready",
                                      !.ops = Append(@, Did("OpenStorage", TRUE))]
          ELSE /\ registry' = registry
               /\ svc' = [svc EXCEPT !.pc = "create",
                                      !.ops = Append(@, Did("OpenStorage", FALSE))]
    /\ UNCHANGED <<files, dirs, stored, last, crashed, calls, run>>

\* registry.CreateStorage, and the return of NewSiteService
CreateStorage ==
    /\ svc.pc = "create"
    /\ \E ok \in BOOLEAN :
          IF ok
          THEN /\ stored' = RegCreateStorage
               /\ registry' = RegCreateStorage
               /\ svc' = [svc EXCEPT !.pc = "ready", !.exists = TRUE,
                                      !.ops = Append(@, Did("CreateStorage", TRUE))]
          ELSE /\ UNCHANGED <<stored, registry>>
               /\ svc' = [svc EXCEPT !.pc = "failed", !.err = "io",
                                      !.ops = Append(@, Did("CreateStorage", FALSE))]
    /\ UNCHANGED <<files, dirs, last, crashed, calls, run>>

\* before NewSiteService: a configuration, and a storage or none
ServiceInit ==
    /\ files = << >>
    /\ dirs = {RootDir, DotPath}
    /\ registry = << >>
    /\ svc \in { [pc |-> "new", type |-> t, exists |-> e, err |-> "none", ops |-> <<>>] :
                   t \in RegistryTypes, e \in BOOLEAN }
    /\ stored \in Storages
    /\ ~svc.exists => stored = << >>
    /\ last = NoCall
    /\ crashed = FALSE
    /\ calls = 0
    /\ run = [p \in Procs |-> NoRun]
    /\ NoDeploy

ServiceNext ==
    \/ NewSiteService /\ UNCHANGED deployVars
    \/ OpenStorage /\ UNCHANGED deployVars
    \/ CreateStorage /\ UNCHANGED deployVars

ServiceSpec == ServiceInit /\ [][ServiceNext]_vars

-----------------------------------------------------------------------------
(* the handlers step by step, for callers that run at the same time *)

\* the site after a first CreateEntry of the payload has succeeded
SiteAfterCreate(payload) ==
    LET model == getModel(payload.metadata.model).m
        outputDir == AbsPath(model.OutputDir)
        outputPath == OutputPath(outputDir, payload)
    IN  [files |-> outputPath :> Render(AbsPath(model.ArchetypePath), payload),
         dirs |-> {RootDir, DotPath, outputDir},
         registry |-> EntryId(payload) :> outputPath]

RunArchetypePath(p) == AbsPath(getModel(run[p].payload.metadata.model).m.ArchetypePath)

RunOutputDir(p) ==
    IF run[p].op = "create"
    THEN AbsPath(getModel(run[p].payload.metadata.model).m.OutputDir)
    ELSE Dir(run[p].oldPath)

RunOutputPath(p) == OutputPath(RunOutputDir(p), run[p].payload)

\* a handler that changes the registry before it writes the file
Follows_RegisterFirst(op, pc) ==
    CASE pc = "mkdir" -> "name"
      [] pc = "name" -> "register"
      [] pc = "register" -> IF op = "update" THEN "remove" ELSE "create"
      [] pc = "remove" -> "create"
      [] pc = "create" -> "execute"
      [] pc = "execute" -> "flush"
      [] pc = "flush" -> "done"

\* the position a handler goes on to when the operation at pc has not failed
Follows(op, pc) ==
    CASE pc = "mkdir" -> "name"
      [] pc = "name" -> IF op = "update" THEN "remove" ELSE "create"
      [] pc = "remove" -> "create"
      [] pc = "create" -> "execute"
      [] pc = "execute" -> "register"
      [] pc = "register" -> "flush"
      [] pc = "flush" -> "done"

\* caller p goes on after the operations in done
Goto(p, pc, done) ==
    run' = [run EXCEPT ![p].pc = pc, ![p].steps = @ \o done]

\* caller p's handler returns
Return(p, ret, err, done) ==
    run' = [run EXCEPT ![p].pc = "done", ![p].ret = ret, ![p].err = err,
                       ![p].steps = @ \o done]

\* a handler is called: the model and its archetype, and in UpdateEntry the
\* old path
Enter(p) ==
    /\ ~crashed /\ run[p].pc = "idle"
    /\ \E op \in {"create", "update"}, payload \in Payloads :
          LET model == getModel(payload.metadata.model).m
              r == [NoRun EXCEPT !.op = op, !.payload = payload]
          IN  IF model = Nil
              THEN /\ crashed' = TRUE
                   /\ run' = [run EXCEPT ![p] = [r EXCEPT !.pc = "done", !.err = "panic"]]
              ELSE IF ArchetypeMissing(AbsPath(model.ArchetypePath))
              THEN /\ crashed' = FALSE
                   /\ run' = [run EXCEPT ![p] = [r EXCEPT !.pc = "done", !.err = "config"]]
              ELSE /\ crashed' = FALSE
                   /\ run' = [run EXCEPT ![p] =
                          [r EXCEPT !.pc = "dir",
                                    !.oldPath = IF op = "update"
                                                THEN RegReadEntry(registry, EntryId(payload))
                                                ELSE EmptyPath]]
    /\ calls' = calls + 1
    /\ UNCHANGED <<files, dirs, registry, stored, last, svc>>

\* "Check if output dir exists"
CheckDir(p) ==
    /\ ~crashed /\ run[p].pc = "dir"
    /\ IF fileExists(RunOutputDir(p))
       THEN Goto(p, Follows(run[p].op, "mkdir"), <<>>)
       ELSE Goto(p, "mkdir", <<>>)
    /\ UNCHANGED <<files, dirs, registry, stored, last, svc, calls, crashed>>

\* os.Mkdir: fails when the directory exists by now
Mkdir(p) ==
    /\ ~crashed /\ run[p].pc = "mkdir"
    /\ \E ok \in BOOLEAN :
          IF ok /\ ~fileExists(RunOutputDir(p))
          THEN /\ dirs' = dirs \cup {RunOutputDir(p)}
               /\ Goto(p, Follows(run[p].op, "mkdir"), <<Did("Mkdir", TRUE)>>)
          ELSE /\ dirs' = dirs
               /\ Return(p, EmptyPath, "io", <<Did("Mkdir", FALSE)>>)
    /\ UNCHANGED <<files, registry, stored, last, svc, calls, crashed>>

\* "Check if output filename is free"
CheckName(p) ==
    /\ ~crashed /\ run[p].pc = "name"
    /\ IF IF run[p].op = "create"
          THEN CreateNameTaken(RunOutputPath(p))
          ELSE UpdateNameTaken(RunOutputPath(p), run[p].oldPath)
       THEN Return(p, EmptyPath, "conflict", <<>>)
       ELSE Goto(p, Follows(run[p].op, "name"), <<>>)
    /\ UNCHANGED <<files, dirs, registry, stored, last, svc, calls, crashed>>

\* "Remove old entry if exists"; the error of os.Remove is dropped
Remove(p) ==
    /\ ~crashed /\ run[p].pc = "remove"
    /\ \E fault \in {"none", "remove"} :
          /\ files' = RemoveOld(run[p].oldPath, fault)
          /\ Goto(p, Follows(run[p].op, "remove"),
                  IF fileExists(run[p].oldPath)
                  THEN <<Did("Remove", fault = "none")>> ELSE <<>>)
    /\ UNCHANGED <<dirs, registry, stored, last, svc, calls, crashed>>

\* template.ParseFiles, then os.Create: the file is there and empty
Create(p) ==
    /\ ~crashed /\ run[p].pc = "create"
    /\ \E fault \in {"none", "parse", "create"} :
          IF fault = "parse"
          THEN files' = files /\ Return(p, EmptyPath, "io", <<>>)
          ELSE IF fault = "create"
          THEN files' = files /\ Return(p, EmptyPath, "io", <<Did("Create", FALSE)>>)
          ELSE /\ files' = WriteFile(files, RunOutputPath(p),
                                     Truncated(RunArchetypePath(p), run[p].payload))
               /\ Goto(p, Follows(run[p].op, "create"), <<Did("Create", TRUE)>>)
    /\ UNCHANGED <<dirs, registry, stored, last, svc, calls, crashed>>

\* tmpl.Execute writes the open file; a file removed since os.Create stays
\* removed
Execute(p) ==
    /\ ~crashed /\ run[p].pc = "execute"
    /\ \E ok \in BOOLEAN :
          IF ok
          THEN /\ files' = IF RunOutputPath(p) \in DOMAIN files
                           THEN WriteFile(files, RunOutputPath(p),
                                          Render(RunArchetypePath(p), run[p].payload))
                           ELSE files
               /\ Goto(p, Follows(run[p].op, "execute"), <<Did("Execute", TRUE)>>)
          ELSE /\ files' = files
               /\ Return(p, EmptyPath, "io", <<Did("Execute", FALSE)>>)
    /\ UNCHANGED <<dirs, registry, stored, last, svc, calls, crashed>>

\* registry.CreateEntry, registry.UpdateEntry
Register(p) ==
    /\ ~crashed /\ run[p].pc = "register"
    /\ \E ok \in BOOLEAN :
          IF ok
          THEN /\ registry' =
                    IF run[p].op = "create"
                    THEN RegCreateEntry(registry, EntryId(run[p].payload), RunOutputPath(p))
                    ELSE RegUpdateEntry(registry, EntryId(run[p].payload), RunOutputPath(p))
               /\ Goto(p, Follows(run[p].op, "register"), <<Did("Register", TRUE)>>)
          ELSE /\ registry' = registry
               /\ Return(p, RegistryErrorPath(RunOutputPath(p)), "registry",
                         <<Did("Register", FALSE)>>)
    /\ UNCHANGED <<files, dirs, stored, last, svc, calls, crashed>>

\* registry.Flush, and the return of the handler
Flush(p) ==
    /\ ~crashed /\ run[p].pc = "flush"
    /\ \E ok \in BOOLEAN :
          IF ok
          THEN /\ stored' = RegFlush(registry)
               /\ Return(p, RunOutputPath(p), "none", <<Did("Flush", TRUE)>>)
          ELSE /\ stored' = stored
               /\ Return(p, RegistryErrorPath(RunOutputPath(p)), "registry",
                         <<Did("Flush", FALSE)>>)
    /\ UNCHANGED <<files, dirs, registry, last, svc, calls, crashed>>

\* every caller makes one call; the site is new, or one entry was created
StepInit ==
    /\ \E before \in { [files |-> << >>, dirs |-> {RootDir, DotPath}, registry |-> << >>],
                        SiteAfterCreate(MkPayload("post", 1, <<"H", "i">>)) } :
          /\ files = before.files
          /\ dirs = before.dirs
          /\ registry = before.registry
          /\ stored = RegFlush(before.registry)
    /\ last = NoCall
    /\ svc = Constructed
    /\ crashed = FALSE
    /\ calls = 0
    /\ run = [p \in Procs |-> NoRun]
    /\ NoDeploy

StepNext ==
    \/ \E p \in Procs : Enter(p) /\ UNCHANGED deployVars
    \/ \E p \in Procs : CheckDir(p) /\ UNCHANGED deployVars
    \/ \E p \in Procs : Mkdir(p) /\ UNCHANGED deployVars
    \/ \E p \in Procs : CheckName(p) /\ UNCHANGED deployVars
    \/ \E p \in Procs : Remove(p) /\ UNCHANGED deployVars
    \/ \E p \in Procs : Create(p) /\ UNCHANGED deployVars
    \/ \E p \in Procs : Execute(p) /\ UNCHANGED deployVars
    \/ \E p \in Procs : Register(p) /\ UNCHANGED deployVars
    \/ \E p \in Procs : Flush(p) /\ UNCHANGED deployVars

StepSpec == StepInit /\ [][StepNext]_vars

-----------------------------------------------------------------------------
(* the build output on disk *)

\* the names of a build, in the order sort.Strings gives them
NameOrder == <<"a.css", "b.png", "c.jpg", "img", "index.html", "sub">>

DirNames == {"img", "sub"}

Rank(name) == CHOOSE i \in 1..Len(NameOrder) : NameOrder[i] = name

\* the nodes a build may hold, as paths relative to the build directory
Universe ==
    { <<"a.css">>, <<"img">>, <<"img", "b.png">>, <<"img", "sub">>,
      <<"img", "sub", "c.jpg">>, <<"index.html">> }

\* a tree holds its root and, with a node, the node's directory
Trees ==
    { T \cup {EmptyPath} : T \in { S \in SUBSET Universe :
          \A n \in S : Len(n) > 1 => SubSeq(n, 1, Len(n) - 1) \in S } }

IsDirNode(n) == n = EmptyPath \/ n[Len(n)] \in DirNames

Children(tree, n) ==
    { c \in tree : Len(c) = Len(n) + 1 /\ SubSeq(c, 1, Len(n)) = n }

RECURSIVE SortNodes(_)
SortNodes(S) ==
    IF S = {} THEN <<>>
    ELSE LET m == CHOOSE x \in S :
                    \A y \in S : Rank(x[Len(x)]) <= Rank(y[Len(y)])
         IN  <<m>> \o SortNodes(S \ {m})

\* filepath.Walk's order of calls of the walk function: a directory, then its
\* entries in lexical order, each directory's subtree with it
RECURSIVE WalkNode(_, _), WalkList(_, _)
WalkNode(tree, n) ==
    IF IsDirNode(n) THEN <<n>> \o WalkList(tree, SortNodes(Children(tree, n)))
    ELSE <<n>>

WalkList(tree, todo) ==
    IF todo = <<>> THEN <<>>
    ELSE WalkNode(tree, Head(todo)) \o WalkList(tree, Tail(todo))

Visits(tree) == WalkNode(tree, EmptyPath)

-----------------------------------------------------------------------------
(* Deployment *)

\* the settings of site.OutputSettings.Build that are modelled
Builds == { EmptyPath, <<"/", "var", "www">> }

\* New: the build destination directory
PublicPath(build) ==
    IF build # EmptyPath
    THEN IF IsAbs(build) THEN build ELSE Join(RootDir, build)
    ELSE Join(RootDir, <<"public">>)

publicPath == PublicPath(site.build)

\* filepath.Rel(base, target), for a target that filepath.Walk yields
Rel(base, target) ==
    IF Len(target) >= Len(base) /\ SubSeq(target, 1, Len(base)) = base
    THEN [ok |-> TRUE, rel |-> SubSeq(target, Len(base) + 1, Len(target))]
    ELSE [ok |-> FALSE, rel |-> EmptyPath]

-----------------------------------------------------------------------------
(* the strings of uploadFile *)

\* the path separator of the operating system: Unix, Windows
Separators == {"/", "\\"}

\* the values of deploymentSettings.AWS.S3Prefix that are modelled
Prefixes == { <<>>, <<"assets">>, <<"old", "\\", "assets">> }

\* the pieces of a name: its stem, and the dot and the extension if it has one
Chars(name) ==
    CASE name = "a.css" -> <<"a", ".", "css">>
      [] name = "b.png" -> <<"b", ".", "png">>
      [] name = "c.jpg" -> <<"c", ".", "jpg">>
      [] name = "index.html" -> <<"index", ".", "html">>
      [] OTHER -> <<name>>

RECURSIVE JoinNames(_, _)
JoinNames(sep, p) ==
    IF p = <<>> THEN <<>>
    ELSE IF Len(p) = 1 THEN Chars(p[1])
    ELSE Chars(Head(p)) \o <<sep>> \o JoinNames(sep, Tail(p))

\* a path as the string the operating system uses; the root is one separator
PathString(sep, p) ==
    IF IsAbs(p) THEN <<sep>> \o JoinNames(sep, Tail(p)) ELSE JoinNames(sep, p)

\* a replacement that leaves the string as it is
ReplaceAll_None(str, old, new) == str

\* strings.ReplaceAll, for an old and a new string of one character
ReplaceAll(str, old, new) ==
    [i \in 1..Len(str) |-> IF str[i] = old THEN new ELSE str[i]]

\* uploadFile: the object's key
FileKey(prefix, rel) ==
    LET fileKey == IF prefix # <<>> THEN prefix \o <<"/">> \o rel ELSE rel
    IN  ReplaceAll(fileKey, "\\", "/")

typeByExtension ==
    ".html" :> "text/html" @@ ".css" :> "text/css" @@ ".xml" :> "text/xml" @@
    ".js" :> "application/javascript" @@ ".pdf" :> "application/pdf" @@
    ".png" :> "image/png" @@ ".jpg" :> "image/jpeg" @@ ".jpeg" :> "image/jpeg" @@
    ".gif" :> "image/gif" @@ ".svg" :> "image/svg+xml" @@ ".webp" :> "image/webp" @@
    ".webm" :> "video/webm" @@ ".mp4" :> "video/mp4" @@ ".ogv" :> "video/ogg" @@
    ".avi" :> "video/x-msvideo" @@
    ".ogg" :> "audio/ogg" @@ ".mp3" :> "audio/mpeg" @@ ".mpeg" :> "audio/mpeg"

\* os.IsPathSeparator: on Windows both slashes separate
IsPathSeparator(c, sep) == c = sep \/ (sep = "\\" /\ c = "/")

\* the pieces of a string written as one string
RECURSIVE Concat(_)
Concat(str) == IF str = <<>> THEN "" ELSE Head(str) \o Concat(Tail(str))

\* filepath.Ext: the suffix from the last dot of the last element of the
\* path; the loop of filepath.Ext at index i
RECURSIVE ExtFrom(_, _, _)
ExtFrom(path, i, sep) ==
    IF i < 1 \/ IsPathSeparator(path[i], sep) THEN ""
    ELSE IF path[i] = "." THEN Concat(SubSeq(path, i, Len(path)))
    ELSE ExtFrom(path, i - 1, sep)

Ext(path, sep) == ExtFrom(path, Len(path), sep)

\* a lookup that finds no extension
Lookup_Default(extension) == "application/octet-stream"

\* getFileContentType: the lookup in the map, and its default
Lookup(extension) ==
    IF extension \in DOMAIN typeByExtension
    THEN typeByExtension[extension]
    ELSE "application/octet-stream"

getFileContentType(fileName, sep) == Lookup(Ext(fileName, sep))

DeployInit ==
    /\ SyncInit
    /\ site \in { [build |-> b, tree |-> t, errAt |-> e, prefix |-> x, sep |-> c] :
                    b \in Builds, t \in Trees,
                    e \in Universe \cup {EmptyPath, <<"none">>},
                    x \in Prefixes, c \in Separators }
    /\ site.errAt \in site.tree \cup {<<"none">>}
    /\ wpc = "idle" /\ wpos = 1
    /\ dpc = "start" /\ cur = EmptyPath /\ dret = "none"
    /\ args = [file |-> <<>>, rel |-> <<>>]
    /\ received = <<>> /\ started = <<>> /\ bucket = {}
    /\ failAt = 0

chanClosed == wpc \in {"closed", "panic"}

\* retrieveFiles: make the channel, start the walk goroutine, return
retrieveFiles ==
    /\ ~crashed /\ dpc = "start"
    /\ wpc' = "walk"
    /\ dpc' = "config"
    /\ UNCHANGED <<site, wpos, cur, args, dret, received, started, bucket, failAt>>

\* config.LoadDefaultConfig and its error return
LoadConfig ==
    /\ ~crashed /\ dpc = "config"
    /\ \E ok \in BOOLEAN :
          IF ok THEN dpc' = "range" /\ dret' = dret
          ELSE dpc' = "returned" /\ dret' = "config error"
    /\ UNCHANGED <<site, wpc, wpos, cur, args, received, started, bucket, failAt>>

\* a walk function that sends every path, a directory's too
Walk_SendAll ==
    /\ ~crashed /\ wpc = "walk"
    /\ LET visits == Visits(site.tree)
       IN  IF wpos > Len(visits)
           THEN wpc' = "closed" /\ wpos' = wpos
           ELSE IF visits[wpos] = site.errAt
           THEN wpc' = "panic" /\ wpos' = wpos
           ELSE wpc' = "send" /\ wpos' = wpos
    /\ UNCHANGED <<site, dpc, cur, args, dret, received, started, bucket, failAt>>

\* one call of fileWalk.Walk by filepath.Walk, up to its send or its return;
\* past the last node filepath.Walk returns nil and the channel is closed; on
\* an error the deferred close runs and the goroutine panics
Walk ==
    /\ ~crashed /\ wpc = "walk"
    /\ LET visits == Visits(site.tree)
       IN  IF wpos > Len(visits)
           THEN wpc' = "closed" /\ wpos' = wpos
           ELSE IF visits[wpos] = site.errAt
           THEN wpc' = "panic" /\ wpos' = wpos
           ELSE IF IsDirNode(visits[wpos])
           THEN wpc' = "walk" /\ wpos' = wpos + 1
           ELSE wpc' = "send" /\ wpos' = wpos
    /\ UNCHANGED <<site, dpc, cur, args, dret, received, started, bucket, failAt>>

\* a loop that takes a path from the channel and does nothing with it
Receive_Drop ==
    /\ ~crashed /\ wpc = "send" /\ dpc = "range"
    /\ cur' = publicPath \o Visits(site.tree)[wpos]
    /\ received' = Append(received, cur')
    /\ wpc' = "walk" /\ wpos' = wpos + 1
    /\ dpc' = "range"
    /\ UNCHANGED <<site, args, dret, started, bucket, failAt>>

\* the unbuffered channel: the walk's send meets Deploy's receive
Receive ==
    /\ ~crashed /\ wpc = "send" /\ dpc = "range"
    /\ cur' = publicPath \o Visits(site.tree)[wpos]
    /\ received' = Append(received, cur')
    /\ wpc' = "walk" /\ wpos' = wpos + 1
    /\ dpc' = "file"
    /\ UNCHANGED <<site, args, dret, started, bucket, failAt>>

\* the range over the closed channel ends and Deploy returns nil
RangeEnds ==
    /\ ~crashed /\ dpc = "range" /\ chanClosed
    /\ dpc' = "returned" /\ dret' = "nil"
    /\ UNCHANGED <<site, wpc, wpos, cur, args, received, started, bucket, failAt>>

\* a loop that goes on to the next path after an error
FileFails_Continue(err) ==
    /\ dpc' = "range"
    /\ dret' = dret
    /\ failAt' = Len(received)

\* a step of the loop body returned an error: Deploy returns it
FileFails(err) ==
    /\ dpc' = "returned"
    /\ dret' = err
    /\ failAt' = Len(received)

\* filepath.Rel and os.Open, then uploader.Upload is called
OpenFile ==
    /\ ~crashed /\ dpc = "file"
    /\ \E openOk \in BOOLEAN :
          IF ~Rel(publicPath, cur).ok
          THEN FileFails("rel error") /\ UNCHANGED <<started, args>>
          ELSE IF ~openOk
          THEN FileFails("open error") /\ UNCHANGED <<started, args>>
          ELSE /\ dpc' = "upload" /\ started' = Append(started, cur)
               /\ args' = [file |-> PathString(site.sep, cur),
                           rel |-> PathString(site.sep, Rel(publicPath, cur).rel)]
               /\ UNCHANGED <<dret, failAt>>
    /\ UNCHANGED <<site, wpc, wpos, cur, received, bucket>>

\* uploadFile: the object's key and content type, and uploader.Upload's return
uploadFile ==
    /\ ~crashed /\ dpc = "upload"
    /\ \E uploadOk \in BOOLEAN :
          IF uploadOk
          THEN /\ bucket' = bucket \cup
                    {[file |-> args.file,
                      key |-> FileKey(site.prefix, args.rel),
                      contentType |-> getFileContentType(args.file, site.sep)]}
               /\ dpc' = "range"
               /\ UNCHANGED <<dret, failAt>>
          ELSE FileFails("upload error") /\ bucket' = bucket
    /\ UNCHANGED <<site, wpc, wpos, cur, args, received, started>>

\* the panic of the walk goroutine ends the process
Panic ==
    /\ ~crashed /\ wpc = "panic"
    /\ crashed' = TRUE
    /\ UNCHANGED deployVars

DeployNext ==
    \/ retrieveFiles /\ UNCHANGED <<syncVars, crashed>>
    \/ LoadConfig /\ UNCHANGED <<syncVars, crashed>>
    \/ Walk /\ UNCHANGED <<syncVars, crashed>>
    \/ Receive /\ UNCHANGED <<syncVars, crashed>>
    \/ RangeEnds /\ UNCHANGED <<syncVars, crashed>>
    \/ OpenFile /\ UNCHANGED <<syncVars, crashed>>
    \/ uploadFile /\ UNCHANGED <<syncVars, crashed>>
    \/ Panic /\ UNCHANGED syncVars

DeploySpec == DeployInit /\ [][DeployNext]_vars

-----------------------------------------------------------------------------
(* uploadFile on its own, for any file name *)

\* runs of characters: the extensions of the map, one that is not in it, and
\* one of the map in capitals
Words ==
    { "html", "css", "xml", "js", "pdf", "png", "jpg", "jpeg", "gif", "svg",
      "webp", "webm", "mp4", "ogv", "avi", "ogg", "mp3", "mpeg",
      "unknown", "HTML" }

Pieces == Words \cup {".", "/", "\\"}

\* the names of files: no name ends with a separator
FileNames(sep) ==
    { f \in UNION { [1..n -> Pieces] : n \in 1..MaxNameLen } :
        ~IsPathSeparator(f[Len(f)], sep) }

\* Deploy has opened a file and calls uploadFile
UploadInit ==
    /\ SyncInit
    /\ site \in { [build |-> EmptyPath, tree |-> {EmptyPath}, errAt |-> <<"none">>,
                    prefix |-> <<>>, sep |-> c] : c \in Separators }
    /\ wpc = "walk" /\ wpos = 1
    /\ dpc = "upload" /\ cur = EmptyPath /\ dret = "none"
    /\ args \in { [file |-> f, rel |-> f] : f \in FileNames(site.sep) }
    /\ received = <<>> /\ started = <<>> /\ bucket = {}
    /\ failAt = 0

UploadNext == uploadFile /\ UNCHANGED <<syncVars, crashed>>

UploadSpec == UploadInit /\ [][UploadNext]_vars

-----------------------------------------------------------------------------
(* Properties of the synchronizer *)

\* this step is a call of the handler op; last' describes it
Calls(op) == calls' = calls + 1 /\ last'.op = op

SlugName(payload) == CreateSlug(payload.entry.Title) \o ".html"

ArchetypeOf(payload) == AbsPath(getModel(payload.metadata.model).m.ArchetypePath)

\* the rendered files on disk that the calls for entry e wrote
FilesOf(e) == { p \in DOMAIN files : files[p].owner = e }

\* C1: when CreateEntry has succeeded and is called again with the same payload,
\* the second call fails with the conflict error, returns no path, and leaves
\* the files and the registry as the first call left them.
C1_CreateTwiceConflicts ==
    [][ ( /\ Calls("create")
          /\ last.op = "create" /\ last.err = "none"
          /\ last'.payload = last.payload )
        => ( /\ last'.err = "conflict"
             /\ last'.ret = EmptyPath
             /\ files' = files
             /\ registry' = registry ) ]_vars

C1_Witness ==
    /\ last.op = "create" /\ last.again /\ last.err = "conflict"
    /\ EntryId(last.payload) \in DOMAIN registry
    /\ registry[EntryId(last.payload)] \in DOMAIN files

\* entries A and B are registered to two different files of one directory, both
\* on disk, and the slug of the payload's title is the name of B's file
C2_Case(A, B, payload) ==
    /\ A \in DOMAIN registry /\ B \in DOMAIN registry /\ A # B
    /\ registry[A] # registry[B]
    /\ registry[A] \in DOMAIN files /\ registry[B] \in DOMAIN files
    /\ Dir(registry[A]) = Dir(registry[B])
    /\ SlugName(payload) = Base(registry[B])

\* C2: UpdateEntry on A with a title whose slug is the name of the file of
\* another registered entry B of the same directory fails with the conflict
\* error; no file and no registry entry changes.
C2_UpdateOntoOtherEntryConflicts ==
    [][ \A B \in DOMAIN registry :
          ( Calls("update") /\ C2_Case(EntryId(last'.payload), B, last'.payload) )
          => ( /\ last'.err = "conflict"
               /\ files' = files
               /\ registry' = registry ) ]_vars

C2_Witness ==
    /\ last.op = "update" /\ last.err = "conflict"
    /\ \E B \in DOMAIN registry : C2_Case(EntryId(last.payload), B, last.payload)

C5_AtMostOneFilePerEntry ==
    \A p \in DOMAIN files : Cardinality(FilesOf(files[p].owner)) <= 1

\* C6: no two distinct entryIds are registered to the same path, in every
\* state reachable by calls of CreateEntry and UpdateEntry, failed calls included.
C6_RegistryOneToOne ==
    \A a, b \in DOMAIN registry : a # b => registry[a] # registry[b]

\* C7: a call whose model name is in neither group of the configuration returns
\* the configuration error (the process does not panic) and changes no file and
\* no registry entry.
C7_UnknownModelConfigError ==
    [][ ( /\ (Calls("create") \/ Calls("update"))
          /\ getModel(last'.payload.metadata.model).m = Nil )
        => ( /\ last'.err = "config"
             /\ ~crashed'
             /\ files' = files
             /\ registry' = registry ) ]_vars

\* C8: UpdateEntry for an entryId with no registry entry (the model resolved,
\* its archetype present) returns a not-found error and writes no file, removes
\* no file and changes no registry entry.
C8_UpdateUnregisteredNotFound ==
    [][ ( /\ Calls("update")
          /\ getModel(last'.payload.metadata.model).m # Nil
          /\ fileExists(ArchetypeOf(last'.payload))
          /\ EntryId(last'.payload) \notin DOMAIN registry )
        => ( /\ last'.err = "notfound"
             /\ files' = files
             /\ registry' = registry ) ]_vars

\* C14: a call for a configured model whose archetype file is missing returns
\* the configuration error and no path, and leaves the directories, the files,
\* the registry's entries and the registry's storage as they were.
C14_MissingArchetypeChangesNothing ==
    [][ ( /\ (Calls("create") \/ Calls("update"))
          /\ getModel(last'.payload.metadata.model).m # Nil
          /\ ~fileExists(ArchetypeOf(last'.payload)) )
        => ( /\ last'.err = "config"
             /\ last'.ret = EmptyPath
             /\ dirs' = dirs
             /\ files' = files
             /\ registry' = registry
             /\ stored' = stored ) ]_vars

\* an update for the model without archetype has failed, in a state in which
\* a flush would have changed the storage
C14_Witness ==
    /\ last.op = "update" /\ last.err = "config"
    /\ last.payload.metadata.model = "draft"
    /\ ~fileExists(ArchetypeOf(last.payload))
    /\ registry # stored
    /\ AbsPath(<<"drafts">>) \notin dirs

\* C15: a CreateEntry in which the registry's CreateEntry or Flush fails
\* returns the error together with the output path; the rendered file is on
\* disk at that path, the registry's storage is as it was before the call, and
\* when CreateEntry failed the registry's entries are as they were too.
C15_CreateKeepsFileOnRegistryFailure ==
    [][ LET payload == last'.payload
            model == getModel(payload.metadata.model).m
            outputPath == OutputPath(AbsPath(model.OutputDir), payload)
        IN  ( Calls("create") /\ last'.hit \in {"registry", "flush"} )
            => ( /\ last'.err # "none"
                 /\ last'.ret = outputPath
                 /\ outputPath \notin DOMAIN files
                 /\ outputPath \in DOMAIN files'
                 /\ files'[outputPath] = Render(ArchetypeOf(payload), payload)
                 /\ stored' = stored
                 /\ (last'.hit = "registry" => registry' = registry) ) ]_vars

\* Flush has failed: the file is on disk, the path is returned, and the
\* storage holds no entry for the entryId
C15_Witness ==
    /\ last.op = "create" /\ last.hit = "flush" /\ last.err # "none"
    /\ last.ret \in DOMAIN files
    /\ files[last.ret].owner = EntryId(last.payload)
    /\ EntryId(last.payload) \in DOMAIN registry
    /\ EntryId(last.payload) \notin DOMAIN stored

-----------------------------------------------------------------------------
(* Properties of NewSiteService *)

\* C18: the first storage call is OpenStorage; CreateStorage is called only as
\* the second call, after an OpenStorage that failed; the construction has
\* failed exactly when the registry type is unknown (with the configuration
\* error and no storage call) or OpenStorage and CreateStorage both failed;
\* it has succeeded exactly when OpenStorage succeeded or, after its failure,
\* CreateStorage did.
C18_OpenThenCreateStorage ==
    /\ Len(svc.ops) <= 2
    /\ Len(svc.ops) >= 1 => svc.ops[1].op = "OpenStorage"
    /\ Len(svc.ops) = 2 => svc.ops[1] = Did("OpenStorage", FALSE)
                            /\ svc.ops[2].op = "CreateStorage"
    /\ svc.type \notin KnownRegistryTypes => svc.ops = <<>>
    /\ svc.pc = "failed"
         => \/ svc.type \notin KnownRegistryTypes /\ svc.err = "config"
            \/ /\ svc.type \in KnownRegistryTypes
               /\ svc.ops = <<Did("OpenStorage", FALSE), Did("CreateStorage", FALSE)>>
    /\ svc.pc = "ready"
         => /\ svc.type \in KnownRegistryTypes
            /\ svc.err = "none"
            /\ \/ svc.ops = <<Did("OpenStorage", TRUE)>>
               \/ svc.ops = <<Did("OpenStorage", FALSE), Did("CreateStorage", TRUE)>>
    /\ svc.pc \in {"ready", "failed"}
         \/ (svc.pc = "new" /\ svc.ops = <<>>)
         \/ (svc.pc = "open" /\ svc.ops = <<>>)
         \/ (svc.pc = "create" /\ svc.ops = <<Did("OpenStorage", FALSE)>>)

\* OpenStorage failed and CreateStorage succeeded: the service is returned
\* with a fresh storage
C18_Witness ==
    /\ svc.pc = "ready"
    /\ svc.ops = <<Did("OpenStorage", FALSE), Did("CreateStorage", TRUE)>>
    /\ registry = << >> /\ stored = << >>

-----------------------------------------------------------------------------
(* Properties of the handlers' steps *)

\* the operations op that returned without error, among those done
Times(done, op) ==
    Cardinality({ i \in 1..Len(done) : done[i] = Did(op, TRUE) })

\* C16: in every call the registry is changed only right after tmpl.Execute
\* has written the file without error, and Flush is called only right after
\* the registry was changed without error; a call that has returned without
\* error has changed the registry once and then flushed it once, as its last
\* two operations; the registry's entries change only in a handler's call of
\* the registry, and its storage only in a handler's Flush.
C16_WriteThenRegisterThenFlush ==
    /\ [](\A p \in Procs :
            LET done == run[p].steps
            IN  /\ \A i \in 1..Len(done) :
                      /\ done[i].op = "Register"
                            => i > 1 /\ done[i - 1] = Did("Execute", TRUE)
                      /\ done[i].op = "Flush"
                            => i > 1 /\ done[i - 1] = Did("Register", TRUE)
                /\ (run[p].pc = "done" /\ run[p].err = "none")
                      => /\ Len(done) >= 3
                         /\ done[Len(done)] = Did("Flush", TRUE)
                         /\ done[Len(done) - 1] = Did("Register", TRUE)
                         /\ done[Len(done) - 2] = Did("Execute", TRUE)
                         /\ Times(done, "Register") = 1
                         /\ Times(done, "Flush") = 1)
    /\ [][registry' # registry
            => \E p \in Procs :
                 run'[p].steps = Append(run[p].steps, Did("Register", TRUE))]_vars
    /\ [][stored' # stored
            => \E p \in Procs :
                 run'[p].steps = Append(run[p].steps, Did("Flush", TRUE))]_vars

\* an UpdateEntry has removed the old file, written the new one, changed the
\* registry and flushed it, while the other caller was in a handler too
C16_Witness ==
    \E p \in Procs :
        /\ run[p].op = "update" /\ run[p].pc = "done" /\ run[p].err = "none"
        /\ run[p].steps = << Did("Remove", TRUE), Did("Create", TRUE),
                             Did("Execute", TRUE), Did("Register", TRUE),
                             Did("Flush", TRUE) >>
        /\ stored[EntryId(run[p].payload)] = run[p].ret
        /\ \E q \in Procs \ {p} : run[q].op = "create" /\ run[q].pc = "flush"

\* caller p has passed the check of the output filename and has created the
\* file
Wrote(p) ==
    \E i \in 1..Len(run[p].steps) : run[p].steps[i] = Did("Create", TRUE)

\* C19: nothing but the check of the output filename keeps two calls apart:
\* a CreateEntry creates its file over an existing one only when another
\* caller's handler, in progress at the same time, has created the file at
\* that path since the check; and the state in which two CreateEntry calls have
\* both passed the check and both written the same file is reachable (the
\* witness).
C19_OverwriteOnlyByConcurrentCreate ==
    [][ \A p \in Procs :
          ( /\ run[p].op = "create" /\ run[p].pc = "create"
            /\ run'[p].steps = Append(run[p].steps, Did("Create", TRUE))
            /\ RunOutputPath(p) \in DOMAIN files )
          => \E q \in Procs \ {p} :
                Wrote(q) /\ RunOutputPath(q) = RunOutputPath(p) ]_vars

\* two CreateEntry calls for two entries with the same title have both passed
\* the check, both written the same file and both returned without error
C19_Witness ==
    /\ \A p \in Procs :
          /\ run[p].op = "create"
          /\ Wrote(p) /\ run[p].pc = "done" /\ run[p].err = "none"
          /\ Did("Execute", TRUE) = run[p].steps[Len(run[p].steps) - 2]
    /\ run[1].ret = run[2].ret
    /\ EntryId(run[1].payload) # EntryId(run[2].payload)
    /\ run[1].ret \in DOMAIN files
    /\ registry[EntryId(run[1].payload)] = registry[EntryId(run[2].payload)]

-----------------------------------------------------------------------------
(* Properties of the deployment *)

FileErrors == {"rel error", "open error", "upload error"}

\* C9: when a step for the Nth received path fails (relativizing, opening or
\* uploading it), Deploy has returned that error, no upload is started for any
\* later path, and the objects uploaded before stay in the bucket.
C9_FirstFailureStopsUploads ==
    /\ [](failAt > 0 => /\ dpc = "returned"
                        /\ dret \in FileErrors
                        /\ Len(received) = failAt
                        /\ Len(started) <= failAt
                        /\ Cardinality(bucket) < failAt)
    /\ [][failAt > 0 => (started' = started /\ received' = received /\ dret' = dret)]_vars
    /\ [][bucket \subseteq bucket']_vars

C9_Witness ==
    /\ failAt >= 2 /\ dret = "upload error"
    /\ Cardinality(bucket) = failAt - 1
    /\ Len(started) = failAt
    /\ wpc = "send"

\* C10: after a traversal error the process has not crashed, and when Deploy has
\* returned it has returned an error, not success.
C10_WalkErrorReturned ==
    wpc = "panic" => (~crashed /\ (dpc = "returned" => dret # "nil"))

\* the regular files of the build, as the paths filepath.Walk passes
RegularFiles == { publicPath \o n : n \in { m \in site.tree : ~IsDirNode(m) } }

\* C11: every path the walk yields is a regular file of the tree and never a
\* directory, no path is yielded twice, and when the walk has closed the
\* channel (which it does only without a traversal error) every regular file
\* under the root has been yielded.
C11_WalkYieldsEachFileOnce ==
    /\ \A i \in 1..Len(received) : received[i] \in RegularFiles
    /\ \A i, j \in 1..Len(received) : i # j => received[i] # received[j]
    /\ wpc = "closed" => { received[i] : i \in 1..Len(received) } = RegularFiles

C11_Witness ==
    /\ wpc = "closed" /\ site.errAt = <<"none">>
    /\ <<"img", "sub", "c.jpg">> \in site.tree /\ <<"img", "b.png">> \in site.tree
    /\ Len(received) = Cardinality(RegularFiles)
    /\ Len(received) >= 3

\* a configured prefix written with forward slashes
Slashed(prefix) ==
    [i \in 1..Len(prefix) |-> IF prefix[i] = "\\" THEN "/" ELSE prefix[i]]

\* the path of p relative to the public root, its names joined with "/"
RelativeKey(p) == JoinNames("/", Rel(publicPath, p).rel)

\* C12: every object in the bucket is the upload of a received file; its key
\* holds no backslash and is the file's path relative to the public root
\* written with forward slashes, alone when no prefix is configured and after
\* the prefix (its backslashes replaced too) and "/" when one is.
C12_KeyIsPrefixedRelativePath ==
    \A o \in bucket :
        /\ \A i \in 1..Len(o.key) : o.key[i] # "\\"
        /\ \E i \in 1..Len(started) :
              /\ o.file = PathString(site.sep, started[i])
              /\ o.key = IF site.prefix = <<>>
                         THEN RelativeKey(started[i])
                         ELSE Slashed(site.prefix) \o <<"/">> \o RelativeKey(started[i])

C12_Witness ==
    /\ site.sep = "\\" /\ site.prefix = <<"old", "\\", "assets">>
    /\ \E o \in bucket :
          o.key = <<"old", "/", "assets", "/", "img", "/", "sub", "/", "c", ".", "jpg">>
    /\ \E o \in bucket : o.key = <<"old", "/", "assets", "/", "a", ".", "css">>

\* the table of content types by extension that the specification lists
Listed ==
    "html" :> "text/html" @@ "css" :> "text/css" @@ "xml" :> "text/xml" @@
    "js" :> "application/javascript" @@ "pdf" :> "application/pdf" @@
    "png" :> "image/png" @@ "jpg" :> "image/jpeg" @@ "jpeg" :> "image/jpeg" @@
    "gif" :> "image/gif" @@ "svg" :> "image/svg+xml" @@ "webp" :> "image/webp" @@
    "webm" :> "video/webm" @@ "mp4" :> "video/mp4" @@ "ogv" :> "video/ogg" @@
    "avi" :> "video/x-msvideo" @@ "ogg" :> "audio/ogg" @@
    "mp3" :> "audio/mpeg" @@ "mpeg" :> "audio/mpeg"

\* the name ends with a dot and the run of characters e
EndsWith(name, e) ==
    Len(name) >= 2 /\ name[Len(name) - 1] = "." /\ name[Len(name)] = e

\* C13: an uploaded object whose file name ends with a listed extension has
\* the content type listed for it; an object whose file name ends with no
\* listed extension has application/octet-stream.
C13_ContentTypeByExtension ==
    \A o \in bucket :
        /\ \A e \in DOMAIN Listed : EndsWith(o.file, e) => o.contentType = Listed[e]
        /\ (\A e \in DOMAIN Listed : ~EndsWith(o.file, e))
              => o.contentType = "application/octet-stream"

C13_Witness ==
    \E o \in bucket :
        /\ o.file = <<"mp4", ".", "webm">>
        /\ o.contentType = "video/webm"
        /\ site.sep = "\\"

\* the uploads that were started and have not returned
InFlight ==
    Len(started) - Cardinality(bucket) - (IF dret = "upload error" THEN 1 ELSE 0)

\* the files of the tree in the order in which the walk reaches them
Yields == SelectSeq(Visits(site.tree), LAMBDA n : ~IsDirNode(n))

\* C17: at most one upload is in flight, and one is exactly while Deploy is in
\* uploadFile; the paths are received in the order in which the walk reaches
\* the files; uploads are started for the received paths in the order of
\* their receipt, each before the next path is received, and for no path
\* twice; and a path leaves the channel only in Deploy's range loop.
C17_OneUploadInWalkOrder ==
    /\ [](/\ InFlight \in {0, 1}
          /\ InFlight = 1 <=> dpc = "upload"
          /\ Len(received) <= Len(Yields)
          /\ \A i \in 1..Len(received) : received[i] = publicPath \o Yields[i]
          /\ Len(started) <= Len(received)
          /\ Len(received) <= Len(started) + 1
          /\ \A i \in 1..Len(started) : started[i] = received[i]
          /\ \A i, j \in 1..Len(started) : i # j => started[i] # started[j])
    /\ [][received' # received
            => /\ dpc = "range" /\ dpc' = "file"
               /\ wpc = "send" /\ wpc' = "walk"
               /\ Len(received') = Len(received) + 1]_vars

\* the second upload is in flight while the walk has gone on, through a
\* directory, to the third file and waits to hand it over
C17_Witness ==
    /\ dpc = "upload" /\ InFlight = 1
    /\ Len(started) = 2 /\ Cardinality(bucket) = 1
    /\ wpc = "send"
    /\ Visits(site.tree)[wpos] = <<"img", "sub", "c.jpg">>
    /\ cur = publicPath \o <<"img", "b.png">>

\* C20: when Deploy has returned, the walk is not waiting to hand a path
\* over. (Only Deploy's range loop receives from the channel, so a walk that
\* waits at its send after Deploy has returned waits forever and never closes
\* the channel.)
C20_WalkNotLeftAtSend ==
    dpc = "returned" => wpc # "send"

====
